---- MODULE Spec2Model ----
(***************************************************************************)
(* Model of tamil_playlist_scraper.py: the Retriever                       *)
(* (fetch_tamil_playlists), its keyword filter, and the entry routine      *)
(* (run_tamil_playlist_scraper).  The output spreadsheet is a sequence of  *)
(* rows, a display name is a sequence of one-character strings.            *)
(***************************************************************************)
EXTENDS Integers, Sequences, FiniteSets, TLC

VARIABLES
    dirExists,          \* Spotify_Playlist_Retrieval/ exists
    file,               \* playlist_name_scraping.xlsx: NoFile or its rows
    clock,              \* wall clock, in ticks
    pc,                 \* "idle" | "loop": position of fetch_tamil_playlists
    caller,             \* "direct" | "entry": who called fetch_tamil_playlists
    arg,                \* the argument `queries` of the current/last call
    idx,                \* index of the next search_term of the for loop
    playlist_records,   \* local list of line 60
    existing_data,      \* local table of lines 72-75
    current_timestamp,  \* local of line 63
    outcome,            \* "none" | "table" | "None" | "raised" of the last call
    returned,           \* the table returned (when outcome = "table")
    entryOut,           \* what run_tamil_playlist_scraper printed last
    queriesFile,        \* Queries.xlsx as the entry routine found it
    callStart,          \* history: clock when the call started
    fileAtCall,         \* history: output file when the call/routine started
    dirAtCall,          \* history: dirExists when the call/routine started
    hits,               \* history: the returned items of this call whose
                        \*   name the keyword set accepts, with their phrase
    nSearches,          \* history: search requests issued by this call
    skipped,            \* history: a search of this call returned an item
                        \*   whose name the keyword set does not accept
    nWrites,            \* history: to_excel calls that wrote, in this call
    failStage,          \* history: where the call raised ("" if nowhere)
    filterName,         \* keyword filter alone: the display name it is applied to
    filterResult        \* keyword filter alone: "unset" | "accept" | "reject" | "raise"

vars == <<dirExists, file, clock, pc, caller, arg, idx, playlist_records,
          existing_data, current_timestamp, outcome, returned, entryOut,
          queriesFile, callStart, fileAtCall, dirAtCall, hits, nSearches,
          skipped, nWrites, failStage, filterName, filterResult>>

----------------------------------------------------------------------------
(* Bounds of the model *)

MaxQueries == 2

MaxItems == 2

MaxRows == 1

MaxClock == 2

MaxPad == 1

(* "%Y-%m-%d %H:%M:%S" has a resolution of one second; the clock is finer *)
TicksPerSecond == 2

----------------------------------------------------------------------------
(* Characters and the regular expression of line 87 *)

UpperSeq == <<"A","B","C","D","E","F","G","H","I","J","K","L","M",
              "N","O","P","Q","R","S","T","U","V","W","X","Y","Z">>

LowerSeq == <<"a","b","c","d","e","f","g","h","i","j","k","l","m",
              "n","o","p","q","r","s","t","u","v","w","x","y","z">>

Digits == {"0","1","2","3","4","5","6","7","8","9"}

Range(s) == {s[i] : i \in DOMAIN s}

UpperLetters == Range(UpperSeq)

LowerLetters == Range(LowerSeq)

WordChars == UpperLetters \cup LowerLetters \cup Digits \cup {"_"}

(* \w of a str pattern: letters, digits and the underscore *)
IsWordChar(c) == c \in WordChars

LowerOf == [c \in UpperLetters |-> LowerSeq[CHOOSE i \in DOMAIN UpperSeq : UpperSeq[i] = c]]

UpperOf == [c \in LowerLetters |-> UpperSeq[CHOOSE i \in DOMAIN LowerSeq : LowerSeq[i] = c]]

(* re.IGNORECASE compares characters by their lower case *)
Lower(c) == IF c \in UpperLetters THEN LowerOf[c] ELSE c

Upper(c) == IF c \in LowerLetters THEN UpperOf[c] ELSE c

(* tamil_keywords, in the order of the alternation *)
tamil_keywords ==
    << <<"t","a","m","i","l">>,
       <<"k","o","l","l","y","w","o","o","d">>,
       <<"c","h","e","n","n","a","i">>,
       <<"m","a","d","r","a","s">>,
       <<"t","a","m","i","z","h">> >>

(* \b at position p (between s[p] and s[p+1]): exactly one side is a word
   character; outside the string counts as a non-word character *)
WordBoundary(s, p) ==
    LET before == p >= 1 /\ p <= Len(s) /\ IsWordChar(s[p])
        after  == p + 1 >= 1 /\ p + 1 <= Len(s) /\ IsWordChar(s[p + 1])
    IN  before # after

(* the literal k matches s right after position p, ignoring case *)
LiteralAt(s, p, k) ==
    /\ p + Len(k) <= Len(s)
    /\ \A j \in 1..Len(k) : Lower(s[p + j]) = Lower(k[j])

(* \b(?:k1|...|k5)\b anchored after position p *)
NoTrailingBoundaryAt(s, p) ==
    /\ WordBoundary(s, p)
    /\ \E a \in DOMAIN tamil_keywords : LiteralAt(s, p, tamil_keywords[a])

PatternAt(s, p) ==
    /\ WordBoundary(s, p)
    /\ \E a \in DOMAIN tamil_keywords :
          /\ LiteralAt(s, p, tamil_keywords[a])
          /\ WordBoundary(s, p + Len(tamil_keywords[a]))

(* re.search: scan the start positions from the left *)
RECURSIVE SearchFrom(_, _)
SearchFrom(s, p) ==
    IF p > Len(s) THEN FALSE
    ELSE IF PatternAt(s, p) THEN TRUE
    ELSE SearchFrom(s, p + 1)

NameMatches(playlist_name) == SearchFrom(playlist_name, 0)


----------------------------------------------------------------------------
(* Values *)

Str(chars) == [kind |-> "str", chars |-> chars]

AbsentName == [kind |-> "absent", chars |-> <<>>]

NullName == [kind |-> "null", chars |-> <<>>]

TamilHits == <<"T","a","m","i","l"," ","H","i","t","s">>

Tamiland == <<"t","a","m","i","l","a","n","d">>

Kollywood == <<"K","O","L","L","Y","W","O","O","D">>

(* the items the search endpoint may return *)
Catalogue ==
    { [id |-> "p1", name |-> Str(TamilHits), total |-> 12],
      [id |-> "p2", name |-> Str(Tamiland), total |-> 3],
      [id |-> "p3", name |-> AbsentName, total |-> 0],
      [id |-> "p4", name |-> NullName, total |-> 5] }

(* the same with a second playlist that the filter lets through *)
WideCatalogue == Catalogue \cup { [id |-> "p5", name |-> Str(Kollywood), total |-> 40] }

SeqsUpTo(S, n) == UNION {[1..k -> S] : k \in 0..n}

(* the pages a search may return: up to n different items of the
   catalogue; the loop stops at an item whose name is None, so such an item
   is the last one looked at *)
Pages(catalogue, n) ==
    {r \in SeqsUpTo(catalogue, n) :
        /\ \A i \in DOMAIN r : r[i].name.kind = "null" => i = Len(r)
        /\ \A i, j \in DOMAIN r : r[i] = r[j] => i = j}

QueryTerms == {"q1", "q2"}

NaN == "NaN"

ListArg(qs) == [kind |-> "list", elems |-> qs]

(* arguments that are not lists: a str (iterable by character) and None *)
NonListArgs == { [kind |-> "str", elems |-> <<"q", "1">>],
                 [kind |-> "none", elems |-> <<>>] }

Args == {ListArg(qs) : qs \in SeqsUpTo(QueryTerms, MaxQueries)} \cup NonListArgs

NoQueriesFile == [state |-> "absent", cells |-> <<>>]

(* Queries.xlsx: absent, without the Queries column, or with its cells *)
QueriesFiles ==
    { NoQueriesFile, [state |-> "nocolumn", cells |-> <<>>] }
    \cup { [state |-> "ok", cells |-> cs] :
              cs \in { <<>>, <<NaN>>, <<"q1", NaN>>, <<NaN, "q2", "q1">> } }

NoFile == [exists |-> FALSE, rows |-> <<>>]

----------------------------------------------------------------------------
(* fetch_tamil_playlists: its pure parts *)

(* line 56: isinstance(queries, list) *)
AnyArgIsList(queries) == TRUE

IsList(queries) == queries.kind = "list"

(* line 63: datetime.now().strftime("%Y-%m-%d %H:%M:%S") *)
strftime(now) == now \div TicksPerSecond

(* line 83: playlist.get('name', '') *)
DefaultName(name) == IF name.kind = "absent" THEN <<>> ELSE name.chars

(* lines 88-95; `now` is the clock when the row is built, which the code
   does not read: the row carries the value captured at line 63 *)
MakeRecordStampedNow(playlist, search_term, timestamp, now) ==
    [PlaylistID |-> playlist.id,
     PlaylistName |-> DefaultName(playlist.name),
     NumSongs |-> playlist.total,
     Query |-> search_term,
     Language |-> "Tamil",
     Timestamp |-> strftime(now)]

MakeRecord(playlist, search_term, timestamp, now) ==
    [PlaylistID |-> playlist.id,
     PlaylistName |-> DefaultName(playlist.name),
     NumSongs |-> playlist.total,
     Query |-> search_term,
     Language |-> "Tamil",
     Timestamp |-> timestamp]

(* line 87 applied to one item: re.search raises TypeError on a name that
   is None *)
KeepsEveryItem(playlist) == playlist.name.kind # "null"

(* line 87 on the names of the catalogue, evaluated once *)
CatalogueMatches == [it \in WideCatalogue |-> NameMatches(DefaultName(it.name))]

ItemPasses(playlist) == playlist.name.kind # "null" /\ CatalogueMatches[playlist]

(* lines 81-95: the inner loop over one page of results *)
RECURSIVE ProcessItems(_, _, _, _, _)
ProcessItems(items, search_term, timestamp, now, acc) ==
    IF items = <<>> THEN [raised |-> FALSE, recs |-> acc]
    ELSE IF Head(items).name.kind = "null" THEN [raised |-> TRUE, recs |-> acc]
    ELSE ProcessItems(Tail(items), search_term, timestamp, now,
            IF ItemPasses(Head(items))
            THEN Append(acc, MakeRecord(Head(items), search_term, timestamp, now))
            ELSE acc)

(* line 98: pd.concat([existing_data, new], ignore_index=True) *)
ConcatNewFirst(existing, new) == new \o existing

ConcatNewOnly(existing, new) == new

RECURSIVE DropDuplicates(_, _)
DropDuplicates(rows, seen) ==
    IF rows = <<>> THEN <<>>
    ELSE IF Head(rows).PlaylistID \in seen THEN DropDuplicates(Tail(rows), seen)
    ELSE <<Head(rows)>> \o DropDuplicates(Tail(rows), seen \cup {Head(rows).PlaylistID})

ConcatDeduplicated(existing, new) == DropDuplicates(existing \o new, {})

Concat(existing, new) == existing \o new

(* lines 106-108: the except clause; it returns None and writes nothing *)
ExceptSavesPartial(f, existing, recs) ==
    [file |-> [exists |-> TRUE, rows |-> existing \o recs], ret |-> "None"]

ExceptClause(f, existing, recs) == [file |-> f, ret |-> "None"]

----------------------------------------------------------------------------
(* run_tamil_playlist_scraper: its pure parts *)

(* line 130: df_queries['Queries'].dropna().tolist() *)
DropNa(cells) == SelectSeq(cells, LAMBDA c : c # NaN)

(* lines 120-130 *)
ReadQueriesUnchecked(qf) == [err |-> "none", queries |-> DropNa(qf.cells)]

ReadQueries(qf) ==
    IF qf.state = "absent" THEN [err |-> "FileNotFoundError", queries |-> <<>>]
    ELSE IF qf.state = "nocolumn" THEN [err |-> "KeyError", queries |-> <<>>]
    ELSE [err |-> "none", queries |-> DropNa(qf.cells)]

(* lines 133-142: what the routine prints for the Retriever's outcome *)
EntryReport(who, out, old) ==
    IF who # "entry" THEN "none"
    ELSE IF out = "table" THEN "ok"
    ELSE IF out = "None" THEN "warn"
    ELSE "error"

----------------------------------------------------------------------------
(* The keyword filter as the specification words it: some keyword occurs,
   compared case-insensitively, not preceded and not followed by a word
   character *)

KeywordOccursAt(name, k, i) ==
    /\ i + Len(k) - 1 <= Len(name)
    /\ \A j \in 1..Len(k) : Lower(name[i + j - 1]) = k[j]
    /\ (i = 1 \/ ~IsWordChar(name[i - 1]))
    /\ (i + Len(k) - 1 = Len(name) \/ ~IsWordChar(name[i + Len(k)]))

KeywordAccepts(name) ==
    \E k \in Range(tamil_keywords) : \E i \in 1..Len(name) : KeywordOccursAt(name, k, i)

(* the returned items of one page that the keyword set accepts *)
CatalogueAccepted == [it \in WideCatalogue |-> KeywordAccepts(DefaultName(it.name))]

AcceptedOf(items, search_term, now) ==
    LET ok(it) == it.name.kind # "null" /\ CatalogueAccepted[it]
        kept == SelectSeq(items, ok)
    IN  [i \in 1..Len(kept) |-> [term |-> search_term, item |-> kept[i], at |-> strftime(now)]]

----------------------------------------------------------------------------
(* State machine *)

InitProgram ==
    /\ dirExists = FALSE
    /\ file = NoFile
    /\ clock = 0
    /\ pc = "idle"
    /\ caller = "direct"
    /\ arg = ListArg(<<>>)
    /\ idx = 1
    /\ playlist_records = <<>>
    /\ existing_data = <<>>
    /\ current_timestamp = 0
    /\ outcome = "none"
    /\ returned = <<>>
    /\ entryOut = "none"
    /\ queriesFile = NoQueriesFile
    /\ callStart = 0
    /\ fileAtCall = NoFile
    /\ dirAtCall = FALSE
    /\ hits = <<>>
    /\ nSearches = 0
    /\ skipped = FALSE
    /\ nWrites = 0
    /\ failStage = ""

Init ==
    /\ InitProgram
    /\ filterName = Str(<<>>)
    /\ filterResult = "unset"

(* what every call or routine start resets *)
Begin(who, a) ==
    /\ pc = "idle"
    /\ Len(file.rows) <= MaxRows
    /\ caller' = who
    /\ arg' = a
    /\ idx' = 1
    /\ playlist_records' = <<>>
    /\ returned' = <<>>
    /\ callStart' = clock
    /\ fileAtCall' = file
    /\ dirAtCall' = dirExists
    /\ hits' = <<>>
    /\ nSearches' = 0
    /\ skipped' = FALSE
    /\ nWrites' = 0
    /\ UNCHANGED <<file, clock, filterName, filterResult>>

(* the call ends with the exception `stage` leaving fetch_tamil_playlists *)
Raises(who, stage) ==
    /\ pc' = "idle"
    /\ outcome' = "raised"
    /\ failStage' = stage
    /\ entryOut' = EntryReport(who, "raised", entryOut)

(* lines 56-75 of fetch_tamil_playlists(a), called by who *)
Fetch(who, a) ==
    /\ Begin(who, a)
    /\ \/ (* line 57: ValueError *)
          /\ ~IsList(a)
          /\ Raises(who, "validate")
          /\ UNCHANGED <<dirExists, existing_data, current_timestamp>>
       \/ (* line 67: os.makedirs raises *)
          /\ IsList(a)
          /\ current_timestamp' = strftime(clock)
          /\ Raises(who, "makedirs")
          /\ UNCHANGED <<dirExists, existing_data>>
       \/ (* line 73: pd.read_excel raises *)
          /\ IsList(a)
          /\ file.exists
          /\ current_timestamp' = strftime(clock)
          /\ dirExists' = TRUE
          /\ Raises(who, "load")
          /\ UNCHANGED existing_data
       \/ (* the try block is entered *)
          /\ IsList(a)
          /\ current_timestamp' = strftime(clock)
          /\ dirExists' = TRUE
          /\ existing_data' = IF file.exists THEN file.rows ELSE <<>>
          /\ pc' = "loop"
          /\ outcome' = "none"
          /\ failStage' = ""
          /\ entryOut' = "none"

(* a direct call of fetch_tamil_playlists *)
CallDirect ==
    \E a \in Args :
        /\ Fetch("direct", a)
        /\ queriesFile' = NoQueriesFile

(* run_tamil_playlist_scraper, up to the first search of the Retriever *)
RunScraper ==
    \E qf \in QueriesFiles :
        /\ queriesFile' = qf
        /\ IF ReadQueries(qf).err # "none"
           THEN (* lines 123, 128: raised and caught at line 140 *)
                /\ Begin("entry", ListArg(<<>>))
                /\ pc' = "idle"
                /\ outcome' = "none"
                /\ failStage' = "entry"
                /\ entryOut' = "error"
                /\ UNCHANGED <<dirExists, existing_data, current_timestamp>>
           ELSE Fetch("entry", ListArg(ReadQueries(qf).queries))

(* lines 106-108 reached from inside the try block *)
Caught(stage) ==
    LET e == ExceptClause(file, existing_data, playlist_records)
    IN  /\ file' = e.file
        /\ outcome' = e.ret
        /\ pc' = "idle"
        /\ failStage' = stage
        /\ entryOut' = EntryReport(caller, e.ret, entryOut)
        /\ UNCHANGED <<playlist_records, idx, returned, hits, skipped>>

(* lines 78-95: one iteration of the outer loop, the search answering with
   one of `pages` *)
SearchIn(pages) ==
    /\ pc = "loop"
    /\ idx <= Len(arg.elems)
    /\ nSearches' = nSearches + 1
    /\ \/ (* line 79: sp.search raises *)
          /\ Caught("loop")
          /\ UNCHANGED nWrites
       \/ \E items \in pages :
             LET r == ProcessItems(items, arg.elems[idx], current_timestamp,
                                   clock, playlist_records)
             IN  IF r.raised
                 THEN /\ Caught("loop")
                      /\ UNCHANGED nWrites
                 ELSE /\ playlist_records' = r.recs
                      /\ idx' = idx + 1
                      /\ hits' = hits \o AcceptedOf(items, arg.elems[idx], clock)
                      /\ skipped' = (skipped \/ Len(AcceptedOf(items, arg.elems[idx], clock)) < Len(items))
                      /\ UNCHANGED <<file, outcome, pc, failStage, entryOut,
                                     returned, nWrites>>
    /\ UNCHANGED <<dirExists, clock, caller, arg, existing_data,
                   current_timestamp, queriesFile, callStart, fileAtCall,
                   dirAtCall, filterName, filterResult>>

Search == SearchIn(Pages(Catalogue, MaxItems))

(* lines 97-104: merge and write, after the loop *)
Save ==
    /\ pc = "loop"
    /\ idx > Len(arg.elems)
    /\ LET updated_df == Concat(existing_data, playlist_records)
       IN  \/ /\ file' = [exists |-> TRUE, rows |-> updated_df]
              /\ nWrites' = nWrites + 1
              /\ outcome' = "table"
              /\ returned' = updated_df
              /\ pc' = "idle"
              /\ entryOut' = EntryReport(caller, "table", entryOut)
              /\ UNCHANGED <<playlist_records, idx, hits, skipped, failStage>>
           \/ (* line 101: to_excel raises on opening the output file, so
                 nothing is written *)
              /\ Caught("write")
              /\ UNCHANGED nWrites
    /\ UNCHANGED <<dirExists, clock, caller, arg, existing_data,
                   current_timestamp, queriesFile, callStart, fileAtCall,
                   dirAtCall, nSearches, filterName, filterResult>>

(* time passes *)
Tick ==
    /\ clock < MaxClock
    /\ clock' = clock + 1
    /\ UNCHANGED <<dirExists, file, pc, caller, arg, idx, playlist_records,
                   existing_data, current_timestamp, outcome, returned,
                   entryOut, queriesFile, callStart, fileAtCall, dirAtCall,
                   hits, nSearches, skipped, nWrites, failStage,
                   filterName, filterResult>>

Next == CallDirect \/ RunScraper \/ Search \/ Save \/ Tick

Spec == Init /\ [][Next]_vars

(* a first call in a fresh working directory, the searches answering from
   the wider catalogue *)
FirstCall == ~dirExists /\ CallDirect

SearchWide == SearchIn(Pages(WideCatalogue, MaxItems))

PageNext == FirstCall \/ SearchWide \/ Save

PageSpec == Init /\ [][PageNext]_vars

----------------------------------------------------------------------------
(* The keyword filter on its own: lines 83-87 applied to one display name *)

PadChars == {" ", "x", "_", "7", "-"}

Pads == SeqsUpTo(PadChars, MaxPad)

Capitalized(k) == [i \in DOMAIN k |-> IF i = 1 THEN Upper(k[i]) ELSE k[i]]

AllUpper(k) == [i \in DOMAIN k |-> Upper(k[i])]

Cores ==
    UNION {{k, Capitalized(k), AllUpper(k)} : k \in Range(tamil_keywords)}
    \cup {<<>>, <<"t","a","m","i">>}

Tails == {<<>>, <<" ","M","a","d","r","a","s">>, <<"t","a","m","i","l">>}

TestNames ==
    {Str(p \o c \o s \o t) : p \in Pads, c \in Cores, s \in Pads, t \in Tails}
    \cup {Str(TamilHits), Str(Tamiland), AbsentName, NullName}

FilterOutcome(name) ==
    IF name.kind = "null" THEN "raise"
    ELSE IF NameMatches(DefaultName(name)) THEN "accept"
    ELSE "reject"

FilterInit ==
    /\ InitProgram
    /\ filterName \in TestNames
    /\ filterResult = "unset"

ApplyFilter ==
    /\ filterResult = "unset"
    /\ filterResult' = FilterOutcome(filterName)
    /\ UNCHANGED <<dirExists, file, clock, pc, caller, arg, idx,
                   playlist_records, existing_data, current_timestamp,
                   outcome, returned, entryOut, queriesFile, callStart,
                   fileAtCall, dirAtCall, hits, nSearches, skipped, nWrites,
                   failStage, filterName>>

FilterNext == ApplyFilter

FilterSpec == FilterInit /\ [][FilterNext]_vars

----------------------------------------------------------------------------
(* Properties *)

IsPrefix(s, t) == Len(s) <= Len(t) /\ SubSeq(t, 1, Len(s)) = s

Succeeded == pc = "idle" /\ outcome = "table"

(* the rows the last successful call added to the persisted table *)
NewRows == SubSeq(file.rows, Len(fileAtCall.rows) + 1, Len(file.rows))

CountId(rows, p) == Cardinality({i \in DOMAIN rows : rows[i].PlaylistID = p})

CountHit(p) == Cardinality({i \in DOMAIN hits : hits[i].item.id = p})

(* C1: a call that raises nothing writes and returns T ++ N: the rows
   persisted before the call, in their order, then the records collected
   in this run; the returned table is the persisted one, and with an empty
   query list the persisted table is T *)
C1_WritesOldThenNew ==
    Succeeded =>
        /\ file.exists
        /\ file.rows = fileAtCall.rows \o playlist_records
        /\ returned = file.rows
        /\ (arg.elems = <<>> => playlist_records = <<>> /\ file.rows = fileAtCall.rows)

C1_Witness ==
    /\ Succeeded
    /\ fileAtCall.rows # <<>>
    /\ playlist_records # <<>>
    /\ fileAtCall.rows \o playlist_records # playlist_records \o fileAtCall.rows

(* C2: in a successful run the new rows are exactly one row per returned
   item whose name passes the keyword filter, in query order and in the
   order returned, each with Language "Tamil", the phrase whose search
   returned it, and the item's identifier, name and track count; an item
   that does not pass adds no row *)
C2_OneRowPerPassingItem ==
    Succeeded =>
        /\ Len(NewRows) = Len(hits)
        /\ \A i \in DOMAIN hits :
              /\ NewRows[i].PlaylistID = hits[i].item.id
              /\ NewRows[i].PlaylistName = hits[i].item.name.chars
              /\ NewRows[i].NumSongs = hits[i].item.total
              /\ NewRows[i].Query = hits[i].term
              /\ NewRows[i].Language = "Tamil"
        /\ \A i, j \in DOMAIN hits :
              (i < j /\ hits[i].term # hits[j].term) =>
                 \E a, b \in DOMAIN arg.elems :
                    a < b /\ arg.elems[a] = hits[i].term /\ arg.elems[b] = hits[j].term

C2_Witness ==
    /\ Succeeded
    /\ skipped
    /\ Len(NewRows) >= 3
    /\ NewRows[1].Query = NewRows[2].Query
    /\ NewRows[1].PlaylistID = "p5"
    /\ NewRows[2].PlaylistID = "p1"
    /\ NewRows[3].Query # NewRows[1].Query

(* C3: the filter accepts a name iff a keyword occurs in it, ignoring case,
   not preceded and not followed by a word character; "Tamil Hits" is
   accepted, "tamiland" is rejected, an absent name is rejected and does
   not raise *)
C3_WholeWordIgnoringCase ==
    (filterResult # "unset" /\ filterName.kind # "null") =>
        /\ filterResult \in {"accept", "reject"}
        /\ (filterResult = "accept") <=> KeywordAccepts(filterName.chars)
        /\ (filterName = Str(TamilHits) => filterResult = "accept")
        /\ (filterName = Str(Tamiland) => filterResult = "reject")
        /\ (filterName = AbsentName => filterResult = "reject")

C3_Witness ==
    /\ filterResult = "reject"
    /\ filterName = Str(Tamiland)

(* C4: an exception in the per-query loop makes the call return None,
   writes nothing and leaves the persisted table as it was before the
   call, whatever was gathered *)
C4_LoopFailureSavesNothing ==
    (pc = "idle" /\ failStage = "loop") =>
        /\ outcome = "None"
        /\ nWrites = 0
        /\ file = fileAtCall

C4_Witness ==
    /\ pc = "idle"
    /\ failStage = "loop"
    /\ idx >= 2
    /\ playlist_records # <<>>
    /\ fileAtCall.rows # <<>>

C6_EarlyFailureReturnsSentinel ==
    (pc = "idle" /\ failStage \in {"makedirs", "load"}) => outcome = "None"

(* C7: a successful run removes and deduplicates nothing: every PlaylistID
   occurs in the persisted table as often as before the run plus once per
   passing item returned with it *)
C7_NoDeduplication ==
    Succeeded =>
        \A it \in Catalogue :
            CountId(file.rows, it.id) = CountId(fileAtCall.rows, it.id) + CountHit(it.id)

C7_Witness ==
    /\ Succeeded
    /\ \E i \in 1..Len(fileAtCall.rows) : \E j \in (Len(fileAtCall.rows) + 1)..Len(file.rows) :
          /\ file.rows[i].PlaylistID = file.rows[j].PlaylistID
          /\ file.rows[i].Query = file.rows[j].Query

(* C8: when Queries.xlsx is absent or lacks the Queries column, the entry
   routine reports the error and returns; the Retriever is not invoked, no
   search is issued, no directory is created and nothing is written *)
C8_NoInputNoEffect ==
    (caller = "entry" /\ queriesFile.state \in {"absent", "nocolumn"}) =>
        /\ pc = "idle"
        /\ entryOut = "error"
        /\ outcome = "none"
        /\ nSearches = 0
        /\ nWrites = 0
        /\ file = fileAtCall
        /\ dirExists = dirAtCall

C8_Witness ==
    /\ caller = "entry"
    /\ queriesFile.state = "absent"
    /\ entryOut = "error"
    /\ ~dirExists

(* C9: every record of one run carries the timestamp captured at the start
   of the call, also when the clock advances between its searches; the
   rows of earlier runs keep theirs *)
C9_OneTimestampPerRun ==
    /\ \A i \in DOMAIN playlist_records :
          playlist_records[i].Timestamp = strftime(callStart)
    /\ Succeeded =>
          /\ \A i \in DOMAIN NewRows : NewRows[i].Timestamp = strftime(callStart)
          /\ \A i \in DOMAIN fileAtCall.rows :
                file.rows[i].Timestamp = fileAtCall.rows[i].Timestamp

C9_Witness ==
    /\ Succeeded
    /\ Len(NewRows) >= 2
    /\ \E i \in DOMAIN hits : hits[i].at # strftime(callStart)

====
